---- MODULE Spec2Model ----
(***************************************************************************)
(* Model of the WebAssembly plugin host of sebastianwessel/assemblytest:   *)
(* src/plugin/mod.rs (PluginOptions, helper_get_function, trait Plugin)    *)
(* and src/plugin/default.rs (DefaultPlugin::create / execute /            *)
(* call_garbage_collector).                                                *)
(*                                                                         *)
(* The host is single threaded.  Every host operation is cut at the guest  *)
(* calls it makes: one action is one guest call together with all host     *)
(* code that follows it up to the next guest call (or the return).  The    *)
(* guest module is the environment: each guest call either traps or        *)
(* returns; what it does to linear memory follows the ABI convention of    *)
(* the guest (length word before the data pointer).                        *)
(***************************************************************************)
EXTENDS Integers, Sequences, FiniteSets, TLC

\* ------------------------------------------------------------------ bounds
\* Size in bytes of a guest's linear memory.
MemSize == 64
\* Largest total byte length of the strings handed to one host operation.
MaxLen == 2
\* Number of init / run_init / execute operations in one behaviour.
MaxCalls == 2
\* Number of allocate_string calls in one behaviour of SpecMarshal.
MaxAllocs == 2
\* Number of add_host_function calls in one behaviour of SpecRegistry.
MaxRegs == 4

\* --------------------------------------------------------------- constants
\* size of the u32 length word ((32 / 8) in get_string)
WordBytes == 4

\* ------------------------------------------------------------------ strings
\* The bytes of the characters the inputs are built from: "a" and "é".
CharA == <<97>>
CharE == <<195, 169>>

RECURSIVE Utf8Strings(_)
\* Every valid UTF-8 byte string over {a, é} of at most n bytes (a Rust String
\* is valid UTF-8 by construction).
Utf8Strings(n) ==
  IF n = 0 THEN {<<>>}
  ELSE LET shorter == Utf8Strings(n - 1)
       IN  shorter
             \cup {s \o CharA : s \in {t \in shorter : Len(t) + 1 <= n}}
             \cup {s \o CharE : s \in {t \in shorter : Len(t) + 2 <= n}}

Strings == Utf8Strings(MaxLen)

IsCont(b) == b >= 128 /\ b <= 191

\* Number of bytes of the maximal valid-or-invalid chunk at position i of bs:
\* <<len, valid>> as core::str::lossy::Utf8Lossy steps through the input.
Utf8Chunk(bs, i) ==
  LET n  == Len(bs)
      b0 == bs[i]
      at(k) == IF i + k <= n THEN bs[i + k] ELSE 0
      has(k) == i + k <= n
      second_ok ==
        CASE b0 = 224 -> has(1) /\ at(1) >= 160 /\ at(1) <= 191
          [] b0 = 237 -> has(1) /\ at(1) >= 128 /\ at(1) <= 159
          [] b0 = 240 -> has(1) /\ at(1) >= 144 /\ at(1) <= 191
          [] b0 = 244 -> has(1) /\ at(1) >= 128 /\ at(1) <= 143
          [] OTHER    -> has(1) /\ IsCont(at(1))
      width ==
        CASE b0 < 128                -> 1
          [] b0 >= 194 /\ b0 <= 223  -> 2
          [] b0 >= 224 /\ b0 <= 239  -> 3
          [] b0 >= 240 /\ b0 <= 244  -> 4
          [] OTHER                   -> 0
  IN  CASE width = 1 -> <<1, TRUE>>
        [] width = 0 -> <<1, FALSE>>
        [] width = 2 -> IF second_ok THEN <<2, TRUE>> ELSE <<1, FALSE>>
        [] width = 3 ->
             IF ~second_ok THEN <<1, FALSE>>
             ELSE IF has(2) /\ IsCont(at(2)) THEN <<3, TRUE>> ELSE <<2, FALSE>>
        [] OTHER ->
             IF ~second_ok THEN <<1, FALSE>>
             ELSE IF ~(has(2) /\ IsCont(at(2))) THEN <<2, FALSE>>
             ELSE IF has(3) /\ IsCont(at(3)) THEN <<4, TRUE>> ELSE <<3, FALSE>>

\* U+FFFD REPLACEMENT CHARACTER in UTF-8
Replacement == <<239, 191, 189>>

RECURSIVE Utf8LossyFrom(_, _)
Utf8LossyFrom(bs, i) ==
  IF i > Len(bs) THEN <<>>
  ELSE LET c == Utf8Chunk(bs, i)
       IN  (IF c[2] THEN SubSeq(bs, i, i + c[1] - 1) ELSE Replacement)
             \o Utf8LossyFrom(bs, i + c[1])

\* String::from_utf8_lossy: the bytes of the decoded String.
from_utf8_lossy(bs) == Utf8LossyFrom(bs, 1)

\* ------------------------------------------------------- linear memory
\* One instance's linear memory: MemSize bytes, zero-initialised.  A memory is
\* the sequence of its bytes; the byte at address a is its element a + 1.
ZeroMem == [k \in 1..MemSize |-> 0]

ByteAt(m, a) == m[a + 1]

WriteBytes(m, at, bs) ==
  [k \in 1..MemSize |->
     IF k - 1 >= at /\ k - 1 < at + Len(bs) THEN bs[k - at] ELSE m[k]]

ReadBytes(m, at, n) == [k \in 1..n |-> ByteAt(m, at + k - 1)]

\* The four little-endian bytes of a length n < 2^31.
LE32Bytes(n) ==
  <<n % 256, (n \div 256) % 256, (n \div 65536) % 256, (n \div 16777216) % 256>>

\* A value no smaller than any u32 the model can tell apart from "too long":
\* words of 2^31 and more are read as this value (they exceed every memory size).
U32Huge == 2147483647

\* The u32 stored little-endian at byte address a.
ReadU32(m, a) ==
  IF ByteAt(m, a + 3) >= 128 THEN U32Huge
  ELSE ByteAt(m, a) + 256 * ByteAt(m, a + 1) + 65536 * ByteAt(m, a + 2)
         + 16777216 * ByteAt(m, a + 3)

\* memory.view::<u32>().get(idx): None outside the view.
view_u32_get(m, idx) ==
  IF idx >= 0 /\ idx < MemSize \div WordBytes
    THEN [some |-> TRUE, v |-> ReadU32(m, WordBytes * idx)]
    ELSE [some |-> FALSE, v |-> 0]

\* WasmPtr<u8, Array>::deref(memory, 0, length) is Some: the slice
\* offset .. offset + length lies inside the memory and offset is inside it.
deref_some(offset, length) ==
  offset >= 0 /\ offset < MemSize /\ length <= MemSize - offset

\* ptr.offset() as usize / (32 / 8) - 1: in usize the subtraction from 0
\* overflows (a panic with overflow checks, usize::MAX without, which is outside
\* every view); -1 stands for both, and view_u32_get gives None for it.
length_index(p) == (p \div WordBytes) - 1

\* get_string reading its bytes from the length word on, not from the pointer.
get_string_from_header(m, p) ==
  LET word == view_u32_get(m, length_index(p))
  IN  IF ~word.some THEN [panic |-> TRUE, val |-> <<>>]
      ELSE IF ~deref_some(p, word.v) THEN [panic |-> TRUE, val |-> <<>>]
      ELSE [panic |-> FALSE,
            val |-> from_utf8_lossy(ReadBytes(m, p - WordBytes, word.v))]

\* get_string taking the length from the word at the pointer, not before it.
get_string_len_at_ptr(m, p) ==
  LET word == view_u32_get(m, p \div WordBytes)
  IN  IF ~word.some THEN [panic |-> TRUE, val |-> <<>>]
      ELSE IF ~deref_some(p, word.v) THEN [panic |-> TRUE, val |-> <<>>]
      ELSE [panic |-> FALSE, val |-> from_utf8_lossy(ReadBytes(m, p, word.v))]

\* Plugin::get_string: [panic, val].  The two unwrap() calls panic on None.
get_string(m, p) ==
  LET word == view_u32_get(m, length_index(p))
  IN  IF ~word.some THEN [panic |-> TRUE, val |-> <<>>]
      ELSE IF ~deref_some(p, word.v) THEN [panic |-> TRUE, val |-> <<>>]
      ELSE [panic |-> FALSE, val |-> from_utf8_lossy(ReadBytes(m, p, word.v))]

\* ------------------------------------------------- guest (ABI convention)
\* The guest's allocator places buffers on 4-byte boundaries, each preceded by
\* a 4-byte little-endian length word, and traps when memory is exhausted.
HeapBase == 0

AlignUp(x) == ((x + WordBytes - 1) \div WordBytes) * WordBytes

GuestAlloc(m, h, n) ==
  LET ptr == AlignUp(h + WordBytes)
  IN  IF ptr + n > MemSize
        THEN [trap |-> TRUE, ptr |-> 0, mem |-> m, heap |-> h]
        ELSE [trap |-> FALSE, ptr |-> ptr,
              mem |-> WriteBytes(m, ptr - WordBytes, LE32Bytes(n)),
              heap |-> ptr + n]

\* The guest reads one of its own buffers.
GuestRead(m, p) == ReadBytes(m, p, ReadU32(m, p - WordBytes))

\* "transform: " and " for payload "
TransformPrefix == <<116, 114, 97, 110, 115, 102, 111, 114, 109, 58, 32>>
TransformInfix == <<32, 102, 111, 114, 32, 112, 97, 121, 108, 111, 97, 100, 32>>

transform(key, payload) == TransformPrefix \o key \o TransformInfix \o payload

\* The guest's execute export: builds the result in a fresh buffer.
GuestTransform(m, h, kp, pp) ==
  LET out == transform(GuestRead(m, kp), GuestRead(m, pp))
      a   == GuestAlloc(m, h, Len(out))
  IN  IF a.trap THEN a
      ELSE [a EXCEPT !.mem = WriteBytes(a.mem, a.ptr, out)]

\* The guest's collector: every buffer of the finished call is released.
GuestCollect(h) == HeapBase

\* ---------------------------------------------------------------- state
VARIABLES
  module,   \* the artifact and how the engine treats it (fixed input)
  plugin,   \* TRUE once create() has returned Ok(Self)
  pc,       \* where the host is
  mem,      \* linear memory of each instance
  heap,     \* the guest allocator's next free address, per instance
  stdout,   \* the sandbox's stdout pipe: the chunks not yet drained
  stderr,   \* the sandbox's stderr pipe
  loc,      \* locals of the operation in progress (kept after it returns)
  ret,      \* what the last operation returned to its caller
  trace,    \* engine and guest calls made by the current operation, in order
  calls,    \* number of operations started
  ptrs,     \* SpecMarshal: the pointers allocate_string has returned
  rd,       \* SpecMarshal: the last get_string
  custom_exports  \* PluginOptions.custom_exports: the registered host functions

vars == <<module, plugin, pc, mem, heap, stdout, stderr, loc, ret, trace, calls,
          ptrs, rd, custom_exports>>

Instances == {1, 2}

\* PluginOptions::new and DefaultPlugin::call_garbage_collector: export names.
StartName == "_start"
InitName == "init"
MallocName == "malloc"
ExecuteName == "transform"
CollectName == "__collect"
ExportNames == {StartName, InitName, MallocName, ExecuteName, CollectName}

\* How the linked module answers a lookup of a name with the expected
\* signature: a function of that signature, nothing usable under the name, or
\* a function of another signature.
Status == {"ok", "absent", "badsig"}

\* Modules: every combination of engine-step outcomes and of the two exports
\* create() resolves, with at most one of the lazily resolved exports defective.
LazyNames == {StartName, InitName, CollectName}

Exports ==
  {e \in [ExportNames -> Status] :
     Cardinality({n \in LazyNames : e[n] # "ok"}) <= 1}

Modules ==
  [file : BOOLEAN, env : BOOLEAN, imports : BOOLEAN, link : BOOLEAN,
   exports : Exports]

Ev(e, a) == [ev |-> e, arg |-> a, data |-> <<>>]
EvData(e, a, d) == [ev |-> e, arg |-> a, data |-> d]

NoRet == [op |-> "none", kind |-> "none", err |-> "", val |-> <<>>]
RetOk(op, v) == [op |-> op, kind |-> "Ok", err |-> "", val |-> v]
RetErr(op, e) == [op |-> op, kind |-> "Err", err |-> e, val |-> <<>>]
RetPanic(op) == [op |-> op, kind |-> "Panic", err |-> "", val |-> <<>>]

NoLoc ==
  [op |-> "none", key |-> <<>>, payload |-> <<>>, config |-> <<>>,
   key_ptr |-> 0, payload_ptr |-> 0, config_ptr |-> 0, result_ptr |-> 0,
   result |-> NoRet, trapped |-> {}, rogue |-> FALSE]

NoRd == [inst |-> 0, from |-> 0, ptr |-> 0, str |-> <<>>, kind |-> "none", val |-> <<>>]

\* ------------------------------------------------ host function registry
\* The host callables of main.rs and the names they are registered under.
HostFunctions == {"tests", "tests2"}
HostNames == {"tests", "tests2"}

\* custom_exports is an insertion-ordered map from names to functions: the
\* sequence of its entries [name, fn, reg], reg telling the Function objects
\* apart (the number of the registration that made it).
NoExports == <<>>

Position(exports, name) ==
  IF \E i \in 1..Len(exports) : exports[i].name = name
    THEN CHOOSE i \in 1..Len(exports) : exports[i].name = name
    ELSE 0

\* An insert that always appends, whether or not the name is in the map.
insert_appends(exports, name, c) == Append(exports, [c EXCEPT !.name = name])

\* Exports::insert: a name already in the map gets the new function in place,
\* a new name is added at the end.
insert(exports, name, c) ==
  IF Position(exports, name) = 0
    THEN Append(exports, [c EXCEPT !.name = name])
    ELSE [exports EXCEPT ![Position(exports, name)] = [c EXCEPT !.name = name]]

\* PluginOptions::add_host_function: Function::new_native, then the insert.
add_host_function(exports, name, value, n) ==
  insert(exports, name, [name |-> name, fn |-> value, reg |-> n])

\* The registry main() builds before create().
MainRegistry ==
  add_host_function(add_host_function(NoExports, "tests", "tests", 1),
                    "tests2", "tests2", 2)

\* -------------------------------------------------------------- create
\* helper_get_function with the two error kinds exchanged.
helper_get_function_swapped(md, name) ==
  CASE md.exports[name] = "ok"     -> ""
    [] md.exports[name] = "badsig" -> "FunctionNotFound"
    [] OTHER                       -> "FunctionInvalidParameter"

\* helper_get_function: "" for Ok(f), else the PluginError.
helper_get_function(md, name) ==
  CASE md.exports[name] = "ok"     -> ""
    [] md.exports[name] = "badsig" -> "FunctionInvalidParameter"
    [] OTHER                       -> "FunctionNotFound"

\* create() resolving the exports although instantiation failed: the
\* InstanceInitFailed return is missing.
create_no_link_check(md) ==
  LET t1 == <<Ev("deserialize_from_file", "")>>
      t2 == Append(t1, Ev("wasi_state_finalize", ""))
      t3 == Append(t2, Ev("import_object", ""))
      t4 == Append(t3, Ev("instance_new", ""))
      t5 == Append(t4, Ev("get_function", ExecuteName))
      t6 == Append(t5, Ev("get_function", MallocName))
  IN  IF ~md.file THEN [err |-> "LoadingError", trace |-> t1]
      ELSE IF ~md.env THEN [err |-> "InitWasiEnvFailed", trace |-> t2]
      ELSE IF ~md.imports THEN [err |-> "WasiImportObjectFailed", trace |-> t3]
      ELSE IF md.exports[ExecuteName] # "ok"
        THEN [err |-> "FunctionNotFound", trace |-> t5]
      ELSE IF md.exports[MallocName] # "ok"
        THEN [err |-> "FunctionNotFound", trace |-> t6]
      ELSE [err |-> "", trace |-> t6]

\* DefaultPlugin::create: [err, trace]; err = "" is Ok(Self).
create(md) ==
  LET t1 == <<Ev("deserialize_from_file", "")>>
      t2 == Append(t1, Ev("wasi_state_finalize", ""))
      t3 == Append(t2, Ev("import_object", ""))
      t4 == Append(t3, Ev("instance_new", ""))
      t5 == Append(t4, Ev("get_function", ExecuteName))
      t6 == Append(t5, Ev("get_function", MallocName))
  IN  IF ~md.file THEN [err |-> "LoadingError", trace |-> t1]
      ELSE IF ~md.env THEN [err |-> "InitWasiEnvFailed", trace |-> t2]
      ELSE IF ~md.imports THEN [err |-> "WasiImportObjectFailed", trace |-> t3]
      ELSE IF ~md.link THEN [err |-> "InstanceInitFailed", trace |-> t4]
      ELSE IF helper_get_function(md, ExecuteName) # ""
        THEN [err |-> helper_get_function(md, ExecuteName), trace |-> t5]
      ELSE IF helper_get_function(md, MallocName) # ""
        THEN [err |-> helper_get_function(md, MallocName), trace |-> t6]
      ELSE [err |-> "", trace |-> t6]

Create ==
  /\ pc = "new"
  /\ LET r == create(module)
     IN  /\ trace' = r.trace
         /\ plugin' = (r.err = "")
         /\ ret' = IF r.err = "" THEN RetOk("create", <<>>) ELSE RetErr("create", r.err)
         /\ pc' = IF r.err = "" THEN "idle" ELSE "failed"
  /\ loc' = [NoLoc EXCEPT !.op = "create"]
  /\ UNCHANGED <<custom_exports, module, mem, heap, stdout, stderr, calls, ptrs, rd>>

\* ------------------------------------------------------- host helpers
\* What a guest call does besides its effect on memory: it returns or traps,
\* and it may have written to its standard streams before that.
OutChoices == {"none", "text"}
GuestOutcomes == [trap : BOOLEAN, out : OutChoices]

\* The guest writes one chunk to a pipe during export `by` of call number n.
WriteOut(pipe, o, by, n) ==
  IF o.out = "none" THEN pipe
  ELSE Append(pipe, [call |-> n, by |-> by, txt |-> o.out])

\* read_from_stdout / read_from_stderr: read_to_string takes everything in the
\* pipe; the trimmed text is Some only when it is not empty.
is_some(chunks) == \E i \in 1..Len(chunks) : chunks[i].txt = "text"

\* Ok arm of a guest call: stdout is drained and logged when Some.
ok_arm_trace(name, out) ==
  <<EvData("read_from_stdout", name, out)>>
    \o (IF is_some(out) THEN <<EvData("info", name, out)>> ELSE <<>>)

\* log_and_transform_error that logs the error without reading stderr.
log_and_transform_error_no_drain(name, err) == <<Ev("error", name)>>

\* log_and_transform_error: logs the error, drains and logs stderr, and gives
\* PluginError::RuntimeError.
log_and_transform_error_trace(name, err) ==
  <<Ev("error", name), EvData("read_from_stderr", name, err)>>
    \o (IF is_some(err) THEN <<EvData("error_stderr", name, err)>> ELSE <<>>)

\* allocate_string whose copy loop stops one byte early.
allocate_string_short(m, h, input, trap) ==
  LET a == GuestAlloc(m, h, Len(input))
  IN  IF trap \/ a.trap THEN [panic |-> TRUE, trapped |-> TRUE, ptr |-> 0, mem |-> m, heap |-> h]
      ELSE IF ~deref_some(a.ptr, Len(input))
        THEN [panic |-> TRUE, trapped |-> FALSE, ptr |-> a.ptr, mem |-> a.mem, heap |-> a.heap]
      ELSE [panic |-> FALSE, trapped |-> FALSE, ptr |-> a.ptr,
            mem |-> WriteBytes(a.mem, a.ptr, SubSeq(input, 1, Len(input) - 1)),
            heap |-> a.heap]

\* Plugin::allocate_string on memory m: the allocator call, then the copy.
\* trap: the guest allocator traps on this call.
allocate_string(m, h, input, trap) ==
  LET a == GuestAlloc(m, h, Len(input))
  IN  IF trap \/ a.trap THEN [panic |-> TRUE, trapped |-> TRUE, ptr |-> 0, mem |-> m, heap |-> h]
      ELSE IF ~deref_some(a.ptr, Len(input))
        THEN [panic |-> TRUE, trapped |-> FALSE, ptr |-> a.ptr, mem |-> a.mem, heap |-> a.heap]
      ELSE [panic |-> FALSE, trapped |-> FALSE, ptr |-> a.ptr,
            mem |-> WriteBytes(a.mem, a.ptr, input), heap |-> a.heap]

\* allocate_string resolving the memory before it calls the allocator.
allocate_string_trace_cached(r) ==
  IF r.trapped THEN <<Ev("get_memory", ""), Ev("call", MallocName)>>
  ELSE IF r.panic THEN <<Ev("get_memory", ""), Ev("call", MallocName)>>
  ELSE <<Ev("get_memory", ""), Ev("call", MallocName), Ev("write_bytes", "")>>

\* The engine calls of allocate_string in order: the allocator call, then
\* get_memory(), then (the deref being Some) the copy into guest memory.
allocate_string_trace(r) ==
  IF r.trapped THEN <<Ev("call", MallocName)>>
  ELSE IF r.panic THEN <<Ev("call", MallocName), Ev("get_memory", "")>>
  ELSE <<Ev("call", MallocName), Ev("get_memory", ""), Ev("write_bytes", "")>>

\* The plugin under test is instance 1.
P == 1

\* ------------------------------------------------------------- execute
\* execute() rejecting the call on a plugin no operation has been run on.
ExecuteBegin_requires_init(key, payload) ==
  /\ pc = "idle"
  /\ calls < MaxCalls
  /\ calls' = calls + 1
  /\ loc' = [NoLoc EXCEPT !.op = "execute", !.key = key, !.payload = payload]
  /\ ret' = IF calls = 0 THEN RetErr("execute", "RuntimeError") ELSE NoRet
  /\ trace' = <<>>
  /\ pc' = IF calls = 0 THEN "idle" ELSE "exec_key"
  /\ UNCHANGED <<custom_exports, module, plugin, mem, heap, stdout, stderr, ptrs, rd>>

\* DefaultPlugin::execute, up to the first guest call.
ExecuteBegin(key, payload) ==
  /\ pc = "idle"
  /\ calls < MaxCalls
  /\ calls' = calls + 1
  /\ loc' = [NoLoc EXCEPT !.op = "execute", !.key = key, !.payload = payload]
  /\ ret' = NoRet
  /\ trace' = <<>>
  /\ pc' = "exec_key"
  /\ UNCHANGED <<custom_exports, module, plugin, mem, heap, stdout, stderr, ptrs, rd>>

\* let key_ptr = self.allocate_string(key);
ExecuteAllocKey ==
  /\ pc = "exec_key"
  /\ \E trap \in BOOLEAN :
       LET r == allocate_string(mem[P], heap[P], loc.key, trap)
       IN  /\ trace' = trace \o allocate_string_trace(r)
           /\ mem' = [mem EXCEPT ![P] = r.mem]
           /\ heap' = [heap EXCEPT ![P] = r.heap]
           /\ loc' = [loc EXCEPT !.key_ptr = r.ptr,
                        !.trapped = IF r.trapped THEN @ \cup {MallocName} ELSE @]
           /\ pc' = IF r.panic THEN "panicked" ELSE "exec_payload"
           /\ ret' = IF r.panic THEN RetPanic("execute") ELSE ret
  /\ UNCHANGED <<custom_exports, module, plugin, stdout, stderr, calls, ptrs, rd>>

\* let payload_ptr = self.allocate_string(payload);
ExecuteAllocPayload ==
  /\ pc = "exec_payload"
  /\ \E trap \in BOOLEAN :
       LET r == allocate_string(mem[P], heap[P], loc.payload, trap)
       IN  /\ trace' = trace \o allocate_string_trace(r)
           /\ mem' = [mem EXCEPT ![P] = r.mem]
           /\ heap' = [heap EXCEPT ![P] = r.heap]
           /\ loc' = [loc EXCEPT !.payload_ptr = r.ptr,
                        !.trapped = IF r.trapped THEN @ \cup {MallocName} ELSE @]
           /\ pc' = IF r.panic THEN "panicked" ELSE "exec_call"
           /\ ret' = IF r.panic THEN RetPanic("execute") ELSE ret
  /\ UNCHANGED <<custom_exports, module, plugin, stdout, stderr, calls, ptrs, rd>>

\* Pointers a guest may return that no allocation of its own produced.
RoguePtrs == {0, WordBytes + 2, MemSize}

\* The match reading the result buffer in the Err arm too.
execute_match_reads_on_trap(trapped, m, result_ptr) ==
  LET s == get_string(m, result_ptr)
  IN  [panic |-> s.panic, read |-> TRUE, result |-> RetOk("execute", s.val)]

\* The match on self.execute_fn.call(key_ptr, payload_ptr): the value bound to
\* `result`, and whether computing it panicked.  m is the memory after the call.
execute_match(trapped, m, result_ptr) ==
  IF trapped THEN [panic |-> FALSE, read |-> FALSE,
                   result |-> RetErr("execute", "RuntimeError")]
  ELSE LET s == get_string(m, result_ptr)
       IN  [panic |-> s.panic, read |-> TRUE, result |-> RetOk("execute", s.val)]

ExecuteCall ==
  /\ pc = "exec_call"
  /\ \E o \in GuestOutcomes, rp \in {-1} \cup RoguePtrs :
       /\ o.trap => rp = -1
       /\ LET g == IF rp = -1
                     THEN GuestTransform(mem[P], heap[P], loc.key_ptr, loc.payload_ptr)
                     ELSE [trap |-> FALSE, ptr |-> rp, mem |-> mem[P], heap |-> heap[P]]
              trapped == o.trap \/ g.trap
              out == WriteOut(stdout, o, ExecuteName, calls)
              err == IF trapped THEN WriteOut(stderr, o, ExecuteName, calls) ELSE stderr
              m == IF trapped THEN mem[P] ELSE g.mem
              r == execute_match(trapped, m, g.ptr)
          IN  /\ mem' = [mem EXCEPT ![P] = m]
              /\ heap' = [heap EXCEPT ![P] = IF trapped THEN @ ELSE g.heap]
              /\ stdout' = IF trapped THEN out ELSE <<>>
              /\ stderr' = IF trapped THEN <<>> ELSE err
              /\ trace' = trace \o <<Ev("call", ExecuteName)>>
                   \o (IF trapped
                         THEN log_and_transform_error_trace(ExecuteName, err)
                         ELSE ok_arm_trace(ExecuteName, out))
                   \o (IF r.read THEN <<Ev("get_memory", ""), Ev("get_string", "")>>
                       ELSE <<>>)
              /\ loc' = [loc EXCEPT !.result = IF r.panic THEN @ ELSE r.result,
                           !.result_ptr = IF trapped THEN @ ELSE g.ptr,
                           !.rogue = (rp # -1),
                           !.trapped = IF trapped THEN @ \cup {ExecuteName} ELSE @]
              /\ pc' = IF r.panic THEN "panicked" ELSE "exec_collect"
              /\ ret' = IF r.panic THEN RetPanic("execute") ELSE ret
  /\ UNCHANGED <<custom_exports, module, plugin, calls, ptrs, rd>>

\* call_garbage_collector that takes a failed lookup for "nothing to collect".
call_garbage_collector_skips(md, trap) ==
  IF helper_get_function(md, CollectName) # "" THEN ""
  ELSE IF trap THEN "RuntimeError"
  ELSE ""

\* DefaultPlugin::call_garbage_collector: "" for Ok(()), else the PluginError.
\* trap: the collector export traps (it is called only when the lookup succeeds).
call_garbage_collector(md, trap) ==
  IF helper_get_function(md, CollectName) # ""
    THEN helper_get_function(md, CollectName)
  ELSE IF trap THEN "RuntimeError"
  ELSE ""

\* execute() returning the result it has when there is one, the collector's
\* error only otherwise.
execute_return_result_first(result, gc_err) ==
  IF result.kind = "Ok" THEN result
  ELSE IF gc_err # "" THEN RetErr("execute", gc_err)
  ELSE result

\* self.call_garbage_collector()?; return result;
execute_return(result, gc_err) ==
  IF gc_err # "" THEN RetErr("execute", gc_err) ELSE result

ExecuteCollect ==
  /\ pc = "exec_collect"
  /\ \/ /\ helper_get_function(module, CollectName) # ""
        /\ trace' = Append(trace, Ev("get_function", CollectName))
        /\ ret' = execute_return(loc.result, call_garbage_collector(module, FALSE))
        /\ UNCHANGED <<heap, stdout, stderr, loc>>
     \/ /\ helper_get_function(module, CollectName) = ""
        /\ \E o \in GuestOutcomes :
             LET out == WriteOut(stdout, o, CollectName, calls)
                 err == IF o.trap THEN WriteOut(stderr, o, CollectName, calls) ELSE stderr
             IN  /\ trace' = trace
                      \o <<Ev("get_function", CollectName), Ev("call", CollectName)>>
                      \o (IF o.trap THEN log_and_transform_error_trace(CollectName, err)
                          ELSE <<>>)
                 /\ heap' = [heap EXCEPT ![P] = IF o.trap THEN @ ELSE GuestCollect(@)]
                 /\ stdout' = out
                 /\ stderr' = IF o.trap THEN <<>> ELSE err
                 /\ loc' = [loc EXCEPT
                              !.trapped = IF o.trap THEN @ \cup {CollectName} ELSE @]
                 /\ ret' = execute_return(loc.result,
                                          call_garbage_collector(module, o.trap))
  /\ pc' = "idle"
  /\ UNCHANGED <<custom_exports, module, plugin, mem, calls, ptrs, rd>>

\* ------------------------------------------------------ init / run_init
\* Plugin::init up to the first guest call: the entry export is looked up.
InitBegin(config) ==
  /\ pc = "idle"
  /\ calls < MaxCalls
  /\ calls' = calls + 1
  /\ loc' = [NoLoc EXCEPT !.op = "init", !.config = config]
  /\ trace' = <<Ev("get_function", StartName)>>
  /\ IF helper_get_function(module, StartName) # ""
       THEN /\ ret' = RetErr("init", helper_get_function(module, StartName))
            /\ pc' = "idle"
       ELSE /\ ret' = NoRet
            /\ pc' = "init_start"
  /\ UNCHANGED <<custom_exports, module, plugin, mem, heap, stdout, stderr, ptrs, rd>>

\* init() going on to run_init although the entry export trapped.
InitStart_continues_on_trap ==
  /\ pc = "init_start"
  /\ \E o \in GuestOutcomes :
       LET out == WriteOut(stdout, o, StartName, calls)
           err == IF o.trap THEN WriteOut(stderr, o, StartName, calls) ELSE stderr
       IN  /\ trace' = trace \o <<Ev("call", StartName)>>
                \o (IF o.trap THEN log_and_transform_error_trace(StartName, err)
                    ELSE ok_arm_trace(StartName, out))
           /\ stdout' = IF o.trap THEN out ELSE <<>>
           /\ stderr' = IF o.trap THEN <<>> ELSE err
           /\ loc' = [loc EXCEPT !.trapped = IF o.trap THEN @ \cup {StartName} ELSE @]
           /\ ret' = ret
           /\ pc' = "init_alloc"
  /\ UNCHANGED <<custom_exports, module, plugin, mem, heap, calls, ptrs, rd>>

\* match start.call() { ... }; then self.run_init(&config)
InitStart ==
  /\ pc = "init_start"
  /\ \E o \in GuestOutcomes :
       LET out == WriteOut(stdout, o, StartName, calls)
           err == IF o.trap THEN WriteOut(stderr, o, StartName, calls) ELSE stderr
       IN  /\ trace' = trace \o <<Ev("call", StartName)>>
                \o (IF o.trap THEN log_and_transform_error_trace(StartName, err)
                    ELSE ok_arm_trace(StartName, out))
           /\ stdout' = IF o.trap THEN out ELSE <<>>
           /\ stderr' = IF o.trap THEN <<>> ELSE err
           /\ loc' = [loc EXCEPT !.trapped = IF o.trap THEN @ \cup {StartName} ELSE @]
           /\ ret' = IF o.trap THEN RetErr("init", "RuntimeError") ELSE ret
           /\ pc' = IF o.trap THEN "idle" ELSE "init_alloc"
  /\ UNCHANGED <<custom_exports, module, plugin, mem, heap, calls, ptrs, rd>>

\* Plugin::run_init called by the plugin's user.
RunInitBegin(config) ==
  /\ pc = "idle"
  /\ calls < MaxCalls
  /\ calls' = calls + 1
  /\ loc' = [NoLoc EXCEPT !.op = "run_init", !.config = config]
  /\ ret' = NoRet
  /\ trace' = <<>>
  /\ pc' = "init_alloc"
  /\ UNCHANGED <<custom_exports, module, plugin, mem, heap, stdout, stderr, ptrs, rd>>

\* run_init: let config_ptr = self.allocate_string(config); then the init
\* export is looked up.
InitAlloc ==
  /\ pc = "init_alloc"
  /\ \E trap \in BOOLEAN :
       LET r == allocate_string(mem[P], heap[P], loc.config, trap)
           lookup == helper_get_function(module, InitName)
       IN  /\ trace' = trace \o allocate_string_trace(r)
                \o (IF r.panic THEN <<>> ELSE <<Ev("get_function", InitName)>>)
           /\ mem' = [mem EXCEPT ![P] = r.mem]
           /\ heap' = [heap EXCEPT ![P] = r.heap]
           /\ loc' = [loc EXCEPT !.config_ptr = r.ptr,
                        !.trapped = IF r.trapped THEN @ \cup {MallocName} ELSE @]
           /\ pc' = IF r.panic THEN "panicked"
                    ELSE IF lookup # "" THEN "idle" ELSE "init_call"
           /\ ret' = IF r.panic THEN RetPanic(loc.op)
                     ELSE IF lookup # "" THEN RetErr(loc.op, lookup) ELSE ret
  /\ UNCHANGED <<custom_exports, module, plugin, stdout, stderr, calls, ptrs, rd>>

\* match init.call(config_ptr) { ... }
InitCall ==
  /\ pc = "init_call"
  /\ \E o \in GuestOutcomes :
       LET out == WriteOut(stdout, o, InitName, calls)
           err == IF o.trap THEN WriteOut(stderr, o, InitName, calls) ELSE stderr
       IN  /\ trace' = trace \o <<EvData("call", InitName, <<loc.config_ptr>>)>>
                \o (IF o.trap THEN log_and_transform_error_trace(InitName, err)
                    ELSE ok_arm_trace(InitName, out))
           /\ stdout' = IF o.trap THEN out ELSE <<>>
           /\ stderr' = IF o.trap THEN <<>> ELSE err
           /\ loc' = [loc EXCEPT !.trapped = IF o.trap THEN @ \cup {InitName} ELSE @]
           /\ ret' = IF o.trap THEN RetErr(loc.op, "RuntimeError") ELSE RetOk(loc.op, <<>>)
  /\ pc' = "idle"
  /\ UNCHANGED <<custom_exports, module, plugin, mem, heap, calls, ptrs, rd>>

\* ------------------------------------------------------- specification
\* Strings handed to one operation: total byte length at most MaxLen.
Inputs == {kp \in Strings \X Strings : Len(kp[1]) + Len(kp[2]) <= MaxLen}

Init ==
  /\ module \in Modules
  /\ plugin = FALSE
  /\ pc = "new"
  /\ mem = [i \in Instances |-> ZeroMem]
  /\ heap = [i \in Instances |-> HeapBase]
  /\ stdout = <<>>
  /\ stderr = <<>>
  /\ loc = NoLoc
  /\ ret = NoRet
  /\ trace = <<>>
  /\ calls = 0
  /\ ptrs = {}
  /\ rd = NoRd
  /\ custom_exports = MainRegistry

Next ==
  \/ Create
  \/ \E c \in Strings : InitBegin(c)
  \/ InitStart
  \/ \E c \in Strings : RunInitBegin(c)
  \/ InitAlloc
  \/ InitCall
  \/ \E kp \in Inputs : ExecuteBegin(kp[1], kp[2])
  \/ ExecuteAllocKey
  \/ ExecuteAllocPayload
  \/ ExecuteCall
  \/ ExecuteCollect

Spec == Init /\ [][Next]_vars

\* create() alone, over every module.
NextCreate == Create

SpecCreate == Init /\ [][NextCreate]_vars

\* --------------------------------------------- marshaling on two instances
\* Two plugins created from a module with every export in place; their user
\* calls allocate_string and get_string on them directly (both are public
\* methods of trait Plugin).
GoodModule ==
  [file |-> TRUE, env |-> TRUE, imports |-> TRUE, link |-> TRUE,
   exports |-> [n \in ExportNames |-> "ok"]]

\* A string that nearly fills a memory.
BigString == [k \in 1..(MemSize - 2 * WordBytes) |-> 97]

MarshalStrings == Strings \cup {BigString}

\* plugin_i.allocate_string(&s)
MarshalAllocate(i, s) ==
  /\ pc = "marshal"
  /\ Cardinality(ptrs) < MaxAllocs
  /\ \E trap \in BOOLEAN :
       LET r == allocate_string(mem[i], heap[i], s, trap)
       IN  /\ mem' = [mem EXCEPT ![i] = r.mem]
           /\ heap' = [heap EXCEPT ![i] = r.heap]
           /\ trace' = allocate_string_trace(r)
           /\ pc' = IF r.panic THEN "panicked" ELSE pc
           /\ ret' = IF r.panic THEN RetPanic("allocate_string")
                     ELSE RetOk("allocate_string", <<>>)
           /\ ptrs' = IF r.panic THEN ptrs
                      ELSE ptrs \cup {[inst |-> i, ptr |-> r.ptr, str |-> s]}
  /\ rd' = NoRd
  /\ UNCHANGED <<custom_exports, module, plugin, stdout, stderr, loc, calls>>

\* plugin_i.get_string(q.ptr), q a pointer some allocate_string returned.
MarshalGetString(i, q) ==
  /\ pc = "marshal"
  /\ q \in ptrs
  /\ LET r == get_string(mem[i], q.ptr)
     IN  /\ rd' = [inst |-> i, from |-> q.inst, ptr |-> q.ptr, str |-> q.str,
                   kind |-> IF r.panic THEN "Panic" ELSE "String", val |-> r.val]
         /\ pc' = IF r.panic THEN "panicked" ELSE pc
         /\ ret' = IF r.panic THEN RetPanic("get_string") ELSE RetOk("get_string", r.val)
  /\ trace' = <<Ev("get_memory", ""), Ev("get_string", "")>>
  /\ UNCHANGED <<custom_exports, module, plugin, mem, heap, stdout, stderr, loc, calls, ptrs>>

InitMarshal ==
  /\ module = GoodModule
  /\ plugin = TRUE
  /\ pc = "marshal"
  /\ mem = [i \in Instances |-> ZeroMem]
  /\ heap = [i \in Instances |-> HeapBase]
  /\ stdout = <<>>
  /\ stderr = <<>>
  /\ loc = NoLoc
  /\ ret = NoRet
  /\ trace = <<>>
  /\ calls = 0
  /\ ptrs = {}
  /\ rd = NoRd
  /\ custom_exports = MainRegistry

NextMarshal ==
  \/ \E i \in Instances, s \in MarshalStrings : MarshalAllocate(i, s)
  \/ \E i \in Instances, q \in ptrs : MarshalGetString(i, q)

SpecMarshal == InitMarshal /\ [][NextMarshal]_vars

\* ------------------------------------------------ building the options
\* options.add_host_function(name, value) on options not yet given to create().
AddHostFunction(name, value) ==
  /\ pc = "new"
  /\ calls < MaxRegs
  /\ calls' = calls + 1
  /\ custom_exports' = add_host_function(custom_exports, name, value, calls + 1)
  /\ trace' = Append(trace, EvData("add_host_function", name, <<value>>))
  /\ UNCHANGED <<module, plugin, pc, mem, heap, stdout, stderr, loc, ret, ptrs, rd>>

\* PluginOptions::new: no host function registered.
InitRegistry ==
  /\ module = GoodModule
  /\ plugin = FALSE
  /\ pc = "new"
  /\ mem = [i \in Instances |-> ZeroMem]
  /\ heap = [i \in Instances |-> HeapBase]
  /\ stdout = <<>>
  /\ stderr = <<>>
  /\ loc = NoLoc
  /\ ret = NoRet
  /\ trace = <<>>
  /\ calls = 0
  /\ ptrs = {}
  /\ rd = NoRd
  /\ custom_exports = NoExports

NextRegistry == \E name \in HostNames, value \in HostFunctions : AddHostFunction(name, value)

SpecRegistry == InitRegistry /\ [][NextRegistry]_vars

\* ================================================================ claims
\* Positions in a trace at which export `name` was invoked.
CallsOf(t, name) == {i \in 1..Len(t) : t[i].ev = "call" /\ t[i].arg = name}

\* The operation `op` has come back to its caller (returned or panicked).
Returned(op) == ret.op = op /\ ret.kind # "none"

LookupErrors == {"FunctionNotFound", "FunctionInvalidParameter"}

\* C1: in every execute() call in which the execute export was invoked
\* (whether it returned or trapped), the guest's collector export is invoked
\* exactly once, after the execute export.  Stated for guests that have a
\* collector export of the expected signature.
C1_CollectorExactlyOnce ==
  (/\ Returned("execute")
   /\ CallsOf(trace, ExecuteName) # {}
   /\ module.exports[CollectName] = "ok") =>
    /\ Cardinality(CallsOf(trace, CollectName)) = 1
    /\ \A i \in CallsOf(trace, ExecuteName), j \in CallsOf(trace, CollectName) : i < j

\* C2: when the execute export trapped, execute() returns the execute
\* failure (RuntimeError) whatever the collector step did.
C2_ExecuteErrorWins ==
  (Returned("execute") /\ ExecuteName \in loc.trapped) =>
    (ret.kind = "Err" /\ ret.err = "RuntimeError")

\* C3: round trip on one instance: get_string of a pointer that
\* allocate_string returned on the same instance gives back exactly the string
\* that was written (no collector run and no overlapping allocation between).
C3_RoundTrip ==
  (rd.kind # "none" /\ rd.inst = rd.from) =>
    (rd.kind = "String" /\ rd.val = rd.str)

\* C3 witness: a two-byte character and the string that nearly fills the
\* memory have each made the round trip.
C3_Witness ==
  /\ rd.kind = "String"
  /\ rd.inst = rd.from
  /\ rd.str \in {CharE, BigString}
  /\ Cardinality(ptrs) = 2

\* The engine steps of create() succeeded: the module is linked.
Linked == module.file /\ module.env /\ module.imports /\ module.link

\* C4: on a linked module, create() fails with FunctionNotFound when the execute
\* export (or, the execute export being in place, the allocator export) is
\* missing, with FunctionInvalidParameter when it has another signature, and
\* returns no plugin in either case.
C4_LookupClassified ==
  (Returned("create") /\ Linked) =>
    LET e == module.exports[ExecuteName]
        a == module.exports[MallocName]
    IN  /\ e = "absent" => (ret.err = "FunctionNotFound" /\ ~plugin)
        /\ e = "badsig" => (ret.err = "FunctionInvalidParameter" /\ ~plugin)
        /\ (e = "ok" /\ a = "absent") => (ret.err = "FunctionNotFound" /\ ~plugin)
        /\ (e = "ok" /\ a = "badsig") =>
             (ret.err = "FunctionInvalidParameter" /\ ~plugin)

\* C4 witness: create() failed on an allocator export of the wrong signature.
C4_Witness ==
  /\ pc = "failed"
  /\ Linked
  /\ module.exports[ExecuteName] = "ok"
  /\ module.exports[MallocName] = "badsig"
  /\ ret.err = "FunctionInvalidParameter"

\* The order in which create() is to run its steps, and for each step whether
\* the module lets it succeed and the error kind of its failure.
CreateOrder ==
  <<Ev("deserialize_from_file", ""), Ev("wasi_state_finalize", ""),
    Ev("import_object", ""), Ev("instance_new", ""),
    Ev("get_function", ExecuteName), Ev("get_function", MallocName)>>

StepSucceeds(k) ==
  CASE k = 1 -> module.file
    [] k = 2 -> module.env
    [] k = 3 -> module.imports
    [] k = 4 -> module.link
    [] k = 5 -> module.exports[ExecuteName] = "ok"
    [] OTHER -> module.exports[MallocName] = "ok"

StepErrors(k) ==
  CASE k = 1 -> {"LoadingError"}
    [] k = 2 -> {"InitWasiEnvFailed"}
    [] k = 3 -> {"WasiImportObjectFailed"}
    [] k = 4 -> {"InstanceInitFailed"}
    [] OTHER -> LookupErrors

\* C5: create() runs load, sandbox environment, sandbox imports, instantiate,
\* execute lookup, allocator lookup in this order; it stops at the first step
\* that fails, returns that step's error kind and no plugin; it returns a
\* plugin only when all six steps succeeded.
C5_CreateOrder ==
  Returned("create") =>
    LET n == Len(trace)
    IN  /\ n >= 1 /\ n <= Len(CreateOrder)
        /\ trace = SubSeq(CreateOrder, 1, n)
        /\ \A k \in 1..(n - 1) : StepSucceeds(k)
        /\ IF StepSucceeds(n)
             THEN n = Len(CreateOrder) /\ ret.kind = "Ok" /\ plugin
             ELSE ret.kind = "Err" /\ ret.err \in StepErrors(n) /\ ~plugin

\* C5 witness: the sandbox import step failed on a module whose later steps
\* would have failed too.
C5_Witness ==
  /\ pc = "failed"
  /\ ret.err = "WasiImportObjectFailed"
  /\ ~module.link
  /\ module.exports[ExecuteName] = "absent"
  /\ Len(trace) = 3

\* C6: an execute() call on a guest that implements transform and its
\* collector, in which no guest call traps, returns exactly
\* "transform: " + key + " for payload " + payload of its own key and payload,
\* whatever calls came before it and whatever they left in memory.
C6_ExecuteResult ==
  (/\ Returned("execute")
   /\ loc.trapped = {}
   /\ ~loc.rogue
   /\ module.exports[CollectName] = "ok") =>
    (ret.kind = "Ok" /\ ret.val = transform(loc.key, loc.payload))

\* C6 witness: the second operation on the plugin is an execute() that returned
\* its transform after an earlier execute() whose export had trapped.
C6_Witness ==
  /\ Returned("execute")
  /\ calls = 2
  /\ ret.kind = "Ok"
  /\ ~loc.rogue
  /\ loc.key = CharA
  /\ loc.payload = CharA
  /\ \E i \in 1..Len(trace) :
       /\ trace[i].ev = "read_from_stdout"
       /\ \E k \in 1..Len(trace[i].data) :
            trace[i].data[k].call = 1 /\ trace[i].data[k].by = ExecuteName

\* C7 (as claimed): get_string on an instance with a pointer another instance
\* produced is rejected with RuntimeError.
C7_Isolation ==
  (rd.kind # "none" /\ rd.inst # rd.from) => rd.kind = "RuntimeError"

\* The slice get_string reads on instance i for an aligned pointer p lies in
\* i's memory.
InOwnMemory(i, p) ==
  /\ p >= WordBytes
  /\ p < MemSize
  /\ ReadU32(mem[i], p - WordBytes) <= MemSize - p

\* C7 (amended): get_string on instance B with a pointer that instance A
\* produced is not rejected: it returns the bytes of B's own memory at that
\* offset, as many as the length word before the offset in B's memory says
\* (lossily decoded), and panics exactly when that slice is not inside B's
\* memory; it never yields an error value.
C7_CrossReadsOwnMemory ==
  (rd.kind # "none" /\ rd.inst # rd.from) =>
    IF InOwnMemory(rd.inst, rd.ptr)
      THEN /\ rd.kind = "String"
           /\ rd.val = from_utf8_lossy(
                         ReadBytes(mem[rd.inst], rd.ptr,
                                   ReadU32(mem[rd.inst], rd.ptr - WordBytes)))
      ELSE rd.kind = "Panic"

\* C7 witness: a pointer from one instance read on the other returned the
\* other instance's own, different string.
C7_Witness ==
  /\ rd.kind = "String"
  /\ rd.inst # rd.from
  /\ rd.val # <<>>
  /\ rd.val # rd.str

\* C8: a guest trap during init(), run_init() or execute() makes the
\* operation return an error value; it never panics.
C8_TrapBecomesError ==
  (ret.kind # "none" /\ ret.op \in {"init", "run_init", "execute"}
     /\ loc.trapped # {}) =>
    ret.kind = "Err"

\* C9: execute() returns a string only when the execute export returned; when
\* the export trapped, execute() returns an error, the result pointer is not
\* read from guest memory, and no string reaches the caller.
C9_NoPartialResult ==
  Returned("execute") =>
    /\ ret.kind = "Ok" =>
         (CallsOf(trace, ExecuteName) # {} /\ ExecuteName \notin loc.trapped)
    /\ ExecuteName \in loc.trapped =>
         /\ ret.kind = "Err"
         /\ ret.val = <<>>
         /\ \A i \in 1..Len(trace) : trace[i].ev # "get_string"

\* C9 witness: the execute export trapped and execute() returned an error.
C9_Witness ==
  /\ Returned("execute")
  /\ ExecuteName \in loc.trapped
  /\ ret.kind = "Err"
  /\ pc = "idle"

\* C10 (as claimed): once create() has succeeded, no operation returns
\* FunctionNotFound or FunctionInvalidParameter.
C10_NoLookupErrorAfterCreate ==
  plugin => ret.err \notin LookupErrors

\* Lookups (positions in the trace) of exports the module does not have with
\* the expected signature.
FailedLookups ==
  {i \in 1..Len(trace) :
     trace[i].ev = "get_function" /\ module.exports[trace[i].arg] # "ok"}

\* C10 (amended): create() resolves only the execute and allocator exports,
\* so after a successful create() neither is looked up again and neither can
\* be missing; the entry point, init and collector exports are looked up by
\* name at each use, and init(), run_init() and execute() return
\* FunctionNotFound / FunctionInvalidParameter exactly when the export they
\* look up is missing / has another signature.
C10_LazyLookups ==
  (plugin /\ ret.kind # "none" /\ ret.op # "create") =>
    /\ module.exports[ExecuteName] = "ok"
    /\ module.exports[MallocName] = "ok"
    /\ \A i \in 1..Len(trace) :
         trace[i].ev = "get_function" => trace[i].arg \in LazyNames
    /\ ret.err \in LookupErrors <=> FailedLookups # {}
    /\ \A i \in FailedLookups :
         /\ i = Len(trace)
         /\ ret.kind = "Err"
         /\ ret.err = (IF module.exports[trace[i].arg] = "absent"
                         THEN "FunctionNotFound" ELSE "FunctionInvalidParameter")

\* C10 witness: execute() on a created plugin returned FunctionNotFound for
\* the collector export after the execute export had returned normally.
C10_Witness ==
  /\ plugin
  /\ Returned("execute")
  /\ ret.err = "FunctionNotFound"
  /\ loc.result.kind = "Ok"
  /\ trace[Len(trace)] = Ev("get_function", CollectName)

\* Positions in a trace at which stderr was drained.
StderrDrains(t) == {i \in 1..Len(t) : t[i].ev = "read_from_stderr"}

\* enum PluginError: the error kinds, none of which carries data.
PluginErrors ==
  {"LoadingError", "InitWasiEnvFailed", "InstanceInitFailed",
   "WasiImportObjectFailed", "RuntimeError", "FunctionNotFound",
   "FunctionInvalidParameter"}

\* The exports whose trap an operation turns into an error value.
TrappedExports == loc.trapped \ {MallocName}

\* C11 (as claimed): on every path on which init(), run_init() or execute()
\* returns an error (a guest trap or a failed export lookup), the guest's
\* stderr pipe has been drained before the error is returned, and the error
\* is one bare error kind.
C11_EveryErrorDrainsStderr ==
  (ret.op \in {"init", "run_init", "execute"} /\ ret.kind = "Err") =>
    /\ StderrDrains(trace) # {}
    /\ ret.err \in PluginErrors
    /\ ret.val = <<>>

\* C11 (amended): when init(), run_init() or execute() returns an error, the
\* error is one bare error kind; for every export (entry, init, execute,
\* collector) that trapped in the operation, stderr was drained after that
\* export was called and before the operation returned; an operation that
\* returns because an export lookup failed, no export having trapped, returns
\* the lookup error without draining stderr.
C11_TrapDrainsStderr ==
  (ret.op \in {"init", "run_init", "execute"} /\ ret.kind = "Err") =>
    /\ ret.err \in PluginErrors
    /\ ret.val = <<>>
    /\ TrappedExports # {} \/ ret.err \in LookupErrors
    /\ \A name \in TrappedExports :
         \E i \in CallsOf(trace, name), j \in StderrDrains(trace) :
           i < j /\ trace[j].arg = name
    /\ Cardinality(StderrDrains(trace)) = Cardinality(TrappedExports)
    /\ TrappedExports = {} => StderrDrains(trace) = {}

\* C11 witness: execute() returned RuntimeError after both the execute export
\* and the collector had trapped, and what the guest wrote to stderr was logged.
C11_Witness ==
  /\ Returned("execute")
  /\ ret.err = "RuntimeError"
  /\ TrappedExports = {ExecuteName, CollectName}
  /\ \E i \in 1..Len(trace) : trace[i].ev = "error_stderr"

\* Positions in a trace at which a pipe was drained.
Drains(t) == {i \in 1..Len(t) : t[i].ev \in {"read_from_stdout", "read_from_stderr"}}

\* The drain at position i of the trace took nothing that export `name` wrote
\* during operation number n.
WroteNothing(t, i, name, n) ==
  \A k \in 1..Len(t[i].data) : ~(t[i].data[k].call = n /\ t[i].data[k].by = name)

\* No lookup of the operation failed and no guest call of it trapped or
\* returned a pointer of its own making.
GuestBehaved == FailedLookups = {} /\ loc.trapped = {} /\ ~loc.rogue

\* C12: when the guest wrote nothing to stdout (or stderr) during a call, the
\* drain after that call gives None (nothing is logged as the call's output),
\* and the operation's outcome does not depend on the output: an operation in
\* which every lookup succeeded and no guest call trapped returns Ok whether
\* or not output was present.
C12_EmptyIsAbsent ==
  (ret.op \in {"init", "run_init", "execute"} /\ ret.kind \in {"Ok", "Err"}) =>
    /\ \A i \in Drains(trace) :
         WroteNothing(trace, i, trace[i].arg, calls) => ~is_some(trace[i].data)
    /\ GuestBehaved => ret.kind = "Ok"

\* execute() has just read its result with get_string(loc.result_ptr) on the
\* memory mem[P] (the read returned or panicked).
ResultRead ==
  /\ loc.op = "execute"
  /\ pc \in {"exec_collect", "panicked"}
  /\ \E i \in 1..Len(trace) : trace[i].ev = "get_string"

\* C13: get_string(p) takes the length from the four bytes p-4 .. p-1
\* (little-endian) and returns exactly that many bytes from offset p on, for
\* every offset p >= 4 inside memory, multiple of 4 or not (it cannot return
\* when that many bytes are not there); for p < 4 it reads nothing.
C13_LengthBeforePointer ==
  ResultRead =>
    LET p == loc.result_ptr
        m == mem[P]
    IN  IF p < WordBytes THEN ret.kind = "Panic"
        ELSE IF p >= MemSize THEN TRUE
        ELSE IF ReadU32(m, p - WordBytes) <= MemSize - p
          THEN /\ loc.result.kind = "Ok"
               /\ loc.result.val =
                    from_utf8_lossy(ReadBytes(m, p, ReadU32(m, p - WordBytes)))
        ELSE ret.kind = "Panic"

\* C14: inside init() the entry export is invoked first and with no
\* arguments; the allocator and the init export are invoked only after the
\* entry export returned without trapping, the init export with the pointer
\* that marshaling the config string produced (the config is what get_string
\* reads there); if the entry export traps, init() returns RuntimeError and
\* neither the allocator nor the init export is invoked.
C14_InitOrder ==
  (loc.op = "init" /\ pc # "init_start") =>
    LET starts == CallsOf(trace, StartName)
        others == CallsOf(trace, MallocName) \cup CallsOf(trace, InitName)
    IN  /\ Cardinality(starts) <= 1
        /\ \A i \in starts : trace[i].data = <<>>
        /\ \A j \in others :
             /\ StartName \notin loc.trapped
             /\ \E i \in starts : i < j
        /\ \A j \in CallsOf(trace, InitName) :
             /\ \E k \in CallsOf(trace, MallocName) : k < j
             /\ trace[j].data = <<loc.config_ptr>>
             /\ get_string(mem[P], loc.config_ptr) =
                  [panic |-> FALSE, val |-> loc.config]
        /\ StartName \in loc.trapped =>
             (ret = RetErr("init", "RuntimeError") /\ others = {})

\* C14 witness: init() has gone through entry export, allocator and init
\* export with a two-byte config, on memory an earlier operation had used.
C14_Witness ==
  /\ Returned("init")
  /\ ret.kind = "Ok"
  /\ calls = 2
  /\ loc.config = CharE
  /\ CallsOf(trace, InitName) # {}

\* The steps of an execute() in which every guest call returned: both
\* allocations, the execute export, the result read, the collector.
ExecuteSteps ==
  <<"call", "get_memory", "write_bytes", "call", "get_memory", "write_bytes",
    "call", "read_from_stdout", "get_memory", "get_string", "get_function",
    "call">>

\* The events of a trace without the logging of captured output.
Steps(t) ==
  LET kept == SelectSeq(t, LAMBDA e : e.ev # "info")
  IN  [i \in 1..Len(kept) |-> kept[i].ev]

\* C15: the host does not enforce the lifecycle order: execute() and
\* run_init() are not rejected whatever operations came before them (none at
\* all, or an init() whose entry or init export trapped); they start with the
\* allocation of their arguments, fail only through the guest (a trap, a
\* pointer of the guest's making, a missing export), and when the guest
\* behaves, execute() performs the same steps and returns the same transform
\* as after a successful init().
C15_NoLifecycleCheck ==
  (ret.op \in {"execute", "run_init"} /\ ret.kind # "none") =>
    /\ Len(trace) >= 1
    /\ trace[1] = Ev("call", MallocName)
    /\ ret.kind = "Err" =>
         \/ ret.err = "RuntimeError" /\ TrappedExports # {}
         \/ ret.err \in LookupErrors /\ FailedLookups # {}
    /\ ret.kind = "Panic" => (MallocName \in loc.trapped \/ loc.rogue)
    /\ GuestBehaved =>
         IF ret.op = "execute"
           THEN /\ ret = RetOk("execute", transform(loc.key, loc.payload))
                /\ Steps(trace) = ExecuteSteps
           ELSE ret = RetOk("run_init", <<>>)

\* C15 witness: execute() as the first operation on a created plugin (no
\* init() before it) returned its transform.
C15_Witness ==
  /\ Returned("execute")
  /\ calls = 1
  /\ ret.kind = "Ok"
  /\ loc.key = CharE
  /\ GuestBehaved

\* Positions in a trace at which the host reads or writes guest memory.
Accesses(t) == {j \in 1..Len(t) : t[j].ev \in {"write_bytes", "get_string"}}

\* C16: the memory is never cached across a guest call: every write of
\* allocate_string and every read of get_string goes through a memory that
\* was resolved (get_memory) after the last guest call before it; in
\* execute() that makes three resolutions, one after each allocator call and
\* one after the execute call.
C16_ViewNotCached ==
  /\ \A j \in Accesses(trace) :
       \E i \in 1..(j - 1) :
         /\ trace[i].ev = "get_memory"
         /\ \A k \in (i + 1)..(j - 1) : trace[k].ev # "call"
  /\ (Returned("execute") /\ ret.kind = "Ok") =>
       /\ Cardinality(Accesses(trace)) = 3
       /\ Cardinality({i \in 1..Len(trace) : trace[i].ev = "get_memory"}) = 3

\* C16 witness: an execute() that wrote both arguments and read its result.
C16_Witness ==
  /\ Returned("execute")
  /\ ret.kind = "Ok"
  /\ ~loc.rogue
  /\ loc.key = CharA
  /\ loc.payload = CharA
  /\ Cardinality(Accesses(trace)) = 3

\* Positions in a trace at which a host function was registered.
Registrations(t) == {i \in 1..Len(t) : t[i].ev = "add_host_function"}

\* The registration at position i of the trace is the last one of its name.
LastOfName(t, i) ==
  \A j \in Registrations(t) : (j > i) => t[j].arg # t[i].arg

\* C17 (as claimed): every add_host_function call adds one function to the
\* registered set and leaves every function registered before it unchanged,
\* also when it reuses a name: after n registrations the registry holds the n
\* functions, each under the name it was registered with.
C17_AppendOnly ==
  pc = "new" =>
    /\ Len(custom_exports) = Cardinality(Registrations(trace))
    /\ \A i \in Registrations(trace) :
         \E k \in 1..Len(custom_exports) :
           custom_exports[k] =
             [name |-> trace[i].arg, fn |-> trace[i].data[1], reg |-> i]

\* C17 (amended): the registry maps names to functions.  A registration under
\* a name not yet registered adds one function and leaves every function
\* registered before it unchanged; a registration that reuses a name replaces
\* the function registered under that name, adds nothing, and leaves the
\* functions under the other names unchanged.  So the registry holds exactly
\* one function per registered name, the one registered last under it, and no
\* name is ever removed.
C17_LastPerName ==
  pc = "new" =>
    /\ Len(custom_exports) =
         Cardinality({trace[i].arg : i \in Registrations(trace)})
    /\ \A i \in Registrations(trace) :
         \E k \in 1..Len(custom_exports) :
           /\ custom_exports[k].name = trace[i].arg
           /\ LastOfName(trace, i) =>
                custom_exports[k] =
                  [name |-> trace[i].arg, fn |-> trace[i].data[1], reg |-> i]
    /\ \A k, l \in 1..Len(custom_exports) :
         custom_exports[k].name = custom_exports[l].name => k = l

\* C17 witness: a name was registered twice, with different callables, and
\* another name between the two.
C17_Witness ==
  /\ pc = "new"
  /\ Len(trace) = 3
  /\ trace[1].arg = "tests" /\ trace[1].data = <<"tests">>
  /\ trace[2].arg = "tests2"
  /\ trace[3].arg = "tests" /\ trace[3].data = <<"tests2">>
  /\ Len(custom_exports) = 2
  /\ custom_exports[1].fn = "tests2"

\* C18: the stdout text drained and logged for an operation consists only of
\* what the guest wrote during that operation's own guest call: nothing
\* written during an earlier call that trapped, or during a collector run, is
\* in it.
C18_OutputOfOwnCall ==
  \A i \in 1..Len(trace) :
    trace[i].ev = "read_from_stdout" =>
      \A k \in 1..Len(trace[i].data) :
        /\ trace[i].data[k].call = calls
        /\ trace[i].data[k].by = trace[i].arg

\* The collector step of the execute() in progress failed: its export could
\* not be resolved or it trapped.
CollectorFailed ==
  \/ CollectName \in loc.trapped
  \/ \E i \in FailedLookups : trace[i].arg = CollectName

\* C19: when the execute export returned normally and its result was read but
\* the collector step then failed, execute() returns the collector's error
\* (RuntimeError for a trap, the lookup error for an unresolved export) and the
\* string already read is discarded; execute() returns Ok(string) only when
\* both the execute export and the collector step succeeded, and then the
\* string is the one that was read.
C19_CollectorErrorDiscardsResult ==
  (Returned("execute") /\ ret.kind # "Panic") =>
    /\ (loc.result.kind = "Ok" /\ CollectorFailed) =>
         /\ ret.kind = "Err"
         /\ ret.val = <<>>
         /\ ret.err = (IF CollectName \in loc.trapped THEN "RuntimeError"
                       ELSE helper_get_function(module, CollectName))
    /\ ret.kind = "Ok" =>
         /\ ExecuteName \notin loc.trapped
         /\ ~CollectorFailed
         /\ CallsOf(trace, CollectName) # {}
         /\ ret = loc.result

\* C19 witness: the execute export returned, the transform was read from guest
\* memory, the collector trapped and execute() returned RuntimeError.
C19_Witness ==
  /\ Returned("execute")
  /\ loc.result = RetOk("execute", transform(CharA, CharA))
  /\ CollectName \in loc.trapped
  /\ ExecuteName \notin loc.trapped
  /\ ret = RetErr("execute", "RuntimeError")

====
